---- MODULE Spec2Model ----
(***************************************************************************)
(* The light abstraction of three-d's renderer (src/renderer/light.rs):    *)
(* the Light trait, its forwarding impls for the ownership wrappers, the   *)
(* shader composer lights_shader_source and lighting_model_to_id.          *)
(*                                                                         *)
(* A render thread calls the operations; a writer thread mutates the       *)
(* lights stored behind Arc<RwLock<T>>.  Shader text is a sequence of      *)
(* tokens <<text, number>>; a number is formatted into decimal digits.     *)
(***************************************************************************)
EXTENDS Integers, Sequences, FiniteSets

\* Longest light list handed to lights_shader_source.
MaxLights == 2

VARIABLES
    scene,          \* the light list: scene[p] is the wrapper stack (outermost first) around light p
    value,          \* value[p]: the current state of light p (what its shader and uniforms depend on)
    readGuards,     \* RwLock read guards the render thread holds: <<p, layer>>
    cellBorrows,    \* RefCell shared borrows the render thread holds: <<p, layer>>
    refMut,         \* the RefCell the caller holds mutably borrowed, or <<>>
    poisoned,       \* the poisoned RwLocks
    wpc,            \* writer thread: "idle", "holding", "dead"
    wlock,          \* the RwLock the writer holds the write guard of, or <<>>
    rpc,            \* render thread: "idle", "loop", "enter", "inner", "exit", "finish", "panicked"
    mode,           \* "none", "direct" (one trait call) or "compose" (lights_shader_source)
    call,           \* the trait call as the caller made it: [op, tgt, slot, prog]
    frame,          \* the arguments as the current layer received them: [op, slot, prog]
    depth,          \* number of wrapper layers the call has passed
    snapshot,       \* the light state the running inner operation started from
    ret,            \* the value the inner operation returned
    effects,        \* uniform bindings made during the current call
    calls,          \* inner operations invoked during the current call
    failed,         \* a light operation of the current call has failed
    shader_source,  \* lights_shader_source: the local shader_source
    dir_fun,        \* lights_shader_source: the local dir_fun
    idx,            \* lights_shader_source: the loop counter i
    last,           \* what the last completed call returned and did
    prev            \* the call completed before the running lights_shader_source, if it was one

vars == <<scene, value, readGuards, cellBorrows, refMut, poisoned, wpc, wlock,
          rpc, mode, call, frame, depth, snapshot, ret, effects, calls, failed,
          shader_source, dir_fun, idx, last, prev>>

rvars == <<rpc, mode, call, frame, depth, snapshot, ret, effects, calls, failed,
           shader_source, dir_fun, idx, last, prev>>

-----------------------------------------------------------------------------
(* Text *)

Tok(s) == <<s, 0>>

RECURSIVE FormatIndex(_)
\* format!("{}", i): the decimal digits of i, most significant first.
FormatIndex(n) ==
    IF n < 10 THEN << <<"digit", n>> >>
    ELSE FormatIndex(n \div 10) \o << <<"digit", n % 10>> >>

\* `i as u32`: the low 32 bits of i.
AsU32(i) == ((i \div 65536) % 65536) * 65536 + (i % 65536)

SharedFrag == << Tok("core/shared.frag") >>

LightSharedFrag == << Tok("light/shaders/light_shared.frag") >>

AccumulateHead == Tok("color += calculate_lighting")

AccumulateTail ==
    Tok("(surface_color, position, normal, view_direction, metallic, roughness, occlusion);\n")

Accumulate(i) == <<AccumulateHead>> \o FormatIndex(i) \o <<AccumulateTail>>

DispatchHead ==
    << Tok("vec3 calculate_lighting(vec3 camera_position, vec3 surface_color, vec3 position, vec3 normal, float metallic, float roughness, float occlusion)"),
       Tok("{"),
       Tok("vec3 color = vec3(0.0, 0.0, 0.0);"),
       Tok("vec3 view_direction = normalize(camera_position - position);") >>

DispatchTail == << Tok("return color;"), Tok("}") >>

DispatchFunction(body) == DispatchHead \o body \o DispatchTail

-----------------------------------------------------------------------------
(* The Light trait and a light that implements it *)

LightOps == {"shader_source", "use_uniforms", "id"}

Programs == {"program_a", "program_b"}

NoProg == "no_program"

Values == {0, 1}

\* Light::shader_source(i) of light p in state v: text that defines calculate_lighting{i}.
LightShaderSource(p, v, i) ==
    << <<"light", p>>, <<"state", v>>, Tok("vec3 calculate_lighting") >>
        \o FormatIndex(i) \o << Tok("(...) { ... }") >>

\* Light::id() of light p in state v.
LightIdOf(p, v) == << <<"LightId", 2 * p + v>> >>

Unit == << Tok("()") >>

\* What operation o of light p in state v returns.
LightResult(o, p, v, i) ==
    CASE o = "shader_source" -> LightShaderSource(p, v, i)
      [] o = "use_uniforms"  -> Unit
      [] o = "id"            -> LightIdOf(p, v)

\* The uniforms operation o of light p in state v binds.
LightEffects(o, p, v, i, g) ==
    IF o = "use_uniforms" THEN << <<g, i, p, v>> >> ELSE <<>>

-----------------------------------------------------------------------------
(* The wrappers *)

WrapperKinds == {"Ref", "RefMut", "Box", "Rc", "Arc", "RefCell", "ArcRwLock"}

\* The accessor each impl hands to impl_light_body!, or read().unwrap().
Accessor(kind) ==
    CASE kind \in {"Ref", "RefMut"}      -> "deref"
      [] kind \in {"Box", "Rc", "Arc"}   -> "as_ref"
      [] kind = "RefCell"                -> "borrow"
      [] kind = "ArcRwLock"              -> "read"

\* A wrapper that hands its own layer's number on instead of the slot index.
ForwardWrongSlot(f) == [op |-> f.op, slot |-> f.slot + 1, prog |-> f.prog]

\* impl_light_body!: the operation and the arguments a wrapper hands to the inner value.
Forward(f) == [op |-> f.op, slot |-> f.slot, prog |-> f.prog]

\* A wrapper returns what the inner operation returned.
ForwardResult(r) == r

Stacks ==
    {<<>>} \cup {<<a>> : a \in WrapperKinds}
           \cup {<<a, b>> : a \in WrapperKinds, b \in WrapperKinds}

Positions == 1 .. Len(scene)

Layers(p) == 1 .. Len(scene[p])

\* The wrapper layers of the scene: <<p, d>> is layer d (1 = outermost) of light p.
LayerIds == UNION {{<<p, d>> : d \in Layers(p)} : p \in Positions}

KindAt(k) == scene[k[1]][k[2]]

Locks == {k \in LayerIds : KindAt(k) = "ArcRwLock"}

Cells == {k \in LayerIds : KindAt(k) = "RefCell"}

\* A lock another thread can hold: what it guards is Send + Sync (no Rc, no RefCell).
Shared(k) ==
    \A d \in Layers(k[1]) : d > k[2] => scene[k[1]][d] \notin {"Rc", "RefCell"}

-----------------------------------------------------------------------------
(* Initial state *)

RECURSIVE WrapCount(_)
WrapCount(sc) == IF sc = <<>> THEN 0 ELSE Len(Head(sc)) + WrapCount(Tail(sc))

\* The light lists: up to MaxLights lights, behind at most two wrapper layers in all.
Scenes ==
    {sc \in UNION {[1 .. n -> Stacks] : n \in 0 .. MaxLights} : WrapCount(sc) <= 2}

NoCall ==
    [op |-> "none", tgt |-> 0, slot |-> 0, prog |-> NoProg, model |-> <<>>,
     result |-> <<>>, effects |-> <<>>, calls |-> <<>>]

NoFrame == [op |-> "none", slot |-> 0, prog |-> NoProg]

NoPrev == [op |-> "none", calls |-> <<>>, result |-> <<>>]

Init ==
    /\ scene \in Scenes
    /\ value = [p \in 1 .. Len(scene) |-> 0]
    /\ readGuards = {}
    /\ cellBorrows = {}
    /\ refMut = <<>>
    /\ poisoned = {}
    /\ wpc = "idle"
    /\ wlock = <<>>
    /\ rpc = "idle"
    /\ mode = "none"
    /\ call = NoCall
    /\ frame = NoFrame
    /\ depth = 0
    /\ snapshot = 0
    /\ ret = <<>>
    /\ effects = <<>>
    /\ calls = <<>>
    /\ failed = FALSE
    /\ shader_source = <<>>
    /\ dir_fun = <<>>
    /\ idx = 0
    /\ last = NoCall
    /\ prev = NoPrev

-----------------------------------------------------------------------------
(* The render thread: one trait call on a light of the list *)

Slots == 0 .. MaxLights - 1

LockVars == <<readGuards, cellBorrows>>

EnvVars == <<scene, value, refMut, poisoned, wpc, wlock>>

ComposeVars == <<shader_source, dir_fun, idx, prev>>

\* A composer that catches the failure and goes on to return what it has.
UnwindCaught(m) == IF m = "compose" THEN "finish" ELSE "panicked"

\* Where a failed light operation leaves the caller: nothing catches the panic.
Unwind(m) == "panicked"

\* The caller invokes operation o on the light at position p: o(i) or o(g, i).
CallLight(o, p, i, g) ==
    /\ rpc = "idle"
    /\ p \in Positions
    /\ (o = "use_uniforms") = (g \in Programs)
    /\ rpc' = "enter"
    /\ mode' = "direct"
    /\ call' = [NoCall EXCEPT !.op = o, !.tgt = p, !.slot = i, !.prog = g]
    /\ frame' = [op |-> o, slot |-> i, prog |-> g]
    /\ depth' = 0
    /\ effects' = <<>>
    /\ calls' = <<>>
    /\ failed' = FALSE
    /\ last' = NoCall
    /\ prev' = NoPrev
    /\ UNCHANGED <<snapshot, ret, shader_source, dir_fun, idx>>
    /\ UNCHANGED <<LockVars, EnvVars>>

\* self.deref() / self.as_ref(): the wrapper hands the call to the value it wraps.
EnterPlain ==
    /\ rpc = "enter"
    /\ depth < Len(scene[call.tgt])
    /\ Accessor(scene[call.tgt][depth + 1]) \in {"deref", "as_ref"}
    /\ depth' = depth + 1
    /\ frame' = Forward(frame)
    /\ UNCHANGED <<rpc, mode, call, snapshot, ret, effects, calls, failed, last>>
    /\ UNCHANGED <<ComposeVars, LockVars, EnvVars>>

\* self.borrow(): panics when the RefCell is mutably borrowed, else holds a Ref
\* until the inner call returns.
EnterBorrow ==
    /\ rpc = "enter"
    /\ depth < Len(scene[call.tgt])
    /\ Accessor(scene[call.tgt][depth + 1]) = "borrow"
    /\ IF refMut = <<call.tgt, depth + 1>>
       THEN /\ rpc' = Unwind(mode)
            /\ failed' = TRUE
            /\ readGuards' = {}
            /\ cellBorrows' = {}
            /\ UNCHANGED <<depth, frame>>
       ELSE /\ cellBorrows' = cellBorrows \cup {<<call.tgt, depth + 1>>}
            /\ depth' = depth + 1
            /\ frame' = Forward(frame)
            /\ UNCHANGED <<rpc, failed, readGuards>>
    /\ UNCHANGED <<mode, call, snapshot, ret, effects, calls, last>>
    /\ UNCHANGED <<ComposeVars, EnvVars>>

\* A read guard dropped before the inner call starts.
ReadGuardDropped(k) == {}

\* What self.read() leaves held for the inner call: the read guard of lock k.
ReadGuard(k) == {k}

\* self.read().unwrap(): waits while a writer holds the lock, panics when the lock
\* is poisoned, else holds the read guard until the inner call returns.
EnterRead ==
    /\ rpc = "enter"
    /\ depth < Len(scene[call.tgt])
    /\ Accessor(scene[call.tgt][depth + 1]) = "read"
    /\ wlock # <<call.tgt, depth + 1>>
    /\ IF <<call.tgt, depth + 1>> \in poisoned
       THEN /\ rpc' = Unwind(mode)
            /\ failed' = TRUE
            /\ readGuards' = {}
            /\ cellBorrows' = {}
            /\ UNCHANGED <<depth, frame>>
       ELSE /\ readGuards' = readGuards \cup ReadGuard(<<call.tgt, depth + 1>>)
            /\ depth' = depth + 1
            /\ frame' = Forward(frame)
            /\ UNCHANGED <<rpc, failed, cellBorrows>>
    /\ UNCHANGED <<mode, call, snapshot, ret, effects, calls, last>>
    /\ UNCHANGED <<ComposeVars, EnvVars>>

\* The light's own operation starts: it reads the light.
InnerBegin ==
    /\ rpc = "enter"
    /\ depth = Len(scene[call.tgt])
    /\ rpc' = "inner"
    /\ snapshot' = value[call.tgt]
    /\ calls' = Append(calls, <<call.tgt, frame.op, frame.slot, value[call.tgt]>>)
    /\ UNCHANGED <<mode, call, frame, depth, ret, effects, failed, last>>
    /\ UNCHANGED <<ComposeVars, LockVars, EnvVars>>

\* The light's own operation finishes: it reads the light again and returns.
InnerEnd ==
    /\ rpc = "inner"
    /\ rpc' = "exit"
    /\ ret' = LightResult(frame.op, call.tgt, value[call.tgt], frame.slot)
    /\ effects' = effects \o
                    LightEffects(frame.op, call.tgt, value[call.tgt], frame.slot, frame.prog)
    /\ UNCHANGED <<mode, call, frame, depth, snapshot, calls, failed, last>>
    /\ UNCHANGED <<ComposeVars, LockVars, EnvVars>>

\* A guard that is leaked instead of dropped.
DropGuardLeaked(held, k) == held

\* The guards left held once a wrapper's forwarding statement ends: its own
\* temporary (a Ref, a read guard) is dropped.
DropGuard(held, k) == held \ {k}

\* A wrapper's forwarding call returns: the result goes up one layer.
Exit ==
    /\ rpc = "exit"
    /\ depth > 0
    /\ depth' = depth - 1
    /\ ret' = ForwardResult(ret)
    /\ readGuards' = DropGuard(readGuards, <<call.tgt, depth>>)
    /\ cellBorrows' = DropGuard(cellBorrows, <<call.tgt, depth>>)
    /\ UNCHANGED <<rpc, mode, call, frame, snapshot, effects, calls, failed, last>>
    /\ UNCHANGED <<ComposeVars, EnvVars>>

\* The call returns to the caller.
ReturnLight ==
    /\ rpc = "exit"
    /\ depth = 0
    /\ mode = "direct"
    /\ rpc' = "idle"
    /\ mode' = "none"
    /\ last' = [call EXCEPT !.result = ret, !.effects = effects, !.calls = calls]
    /\ call' = NoCall
    /\ frame' = NoFrame
    /\ snapshot' = 0
    /\ ret' = <<>>
    /\ effects' = <<>>
    /\ calls' = <<>>
    /\ UNCHANGED <<depth, failed>>
    /\ UNCHANGED <<ComposeVars, LockVars, EnvVars>>

-----------------------------------------------------------------------------
(* The render thread: lights_shader_source(lights), lights being the scene *)

\* let mut shader_source = include_str!(shared.frag).to_string();
\* shader_source.push_str(include_str!(light_shared.frag)); let mut dir_fun = String::new();
CallLightsShaderSource ==
    /\ rpc = "idle"
    /\ rpc' = "loop"
    /\ mode' = "compose"
    /\ shader_source' = SharedFrag \o LightSharedFrag
    /\ dir_fun' = <<>>
    /\ idx' = 0
    /\ effects' = <<>>
    /\ calls' = <<>>
    /\ failed' = FALSE
    /\ prev' = IF last.op = "lights_shader_source"
               THEN [op |-> last.op, calls |-> last.calls, result |-> last.result]
               ELSE NoPrev
    /\ last' = NoCall
    /\ UNCHANGED <<call, frame, depth, snapshot, ret>>
    /\ UNCHANGED <<LockVars, EnvVars>>

\* A slot counter that is not reset between calls.
SlotOfGlobalCounter(i) == AsU32(i + Len(prev.calls))

\* The slot index the loop hands to the light at 0-based position i.
SlotOf(i) == AsU32(i)

\* for (i, light) in lights.iter().enumerate(): light.shader_source(i as u32) is
\* called for the next light, or the loop ends.
LoopNext ==
    /\ rpc = "loop"
    /\ IF idx < Len(scene)
       THEN /\ rpc' = "enter"
            /\ call' = [NoCall EXCEPT !.op = "shader_source", !.tgt = idx + 1,
                                      !.slot = SlotOf(idx)]
            /\ frame' = [op |-> "shader_source", slot |-> SlotOf(idx), prog |-> NoProg]
            /\ depth' = 0
       ELSE /\ rpc' = "finish"
            /\ UNCHANGED <<call, frame, depth>>
    /\ UNCHANGED <<mode, snapshot, ret, effects, calls, failed, last>>
    /\ UNCHANGED <<ComposeVars, LockVars, EnvVars>>

\* A statement that names the first light whatever the position.
DirFunLineRepeated(i) == Accumulate(0)

\* The statement the loop adds to dir_fun for the light at 0-based position i.
DirFunLine(i) == Accumulate(i)

\* shader_source.push_str(&light.shader_source(i as u32)); dir_fun.push_str(&format!(..., i))
LoopAppend ==
    /\ rpc = "exit"
    /\ depth = 0
    /\ mode = "compose"
    /\ rpc' = "loop"
    /\ shader_source' = shader_source \o ret
    /\ dir_fun' = dir_fun \o DirFunLine(idx)
    /\ idx' = idx + 1
    /\ call' = NoCall
    /\ frame' = NoFrame
    /\ snapshot' = 0
    /\ ret' = <<>>
    /\ UNCHANGED <<mode, depth, effects, calls, failed, last, prev>>
    /\ UNCHANGED <<LockVars, EnvVars>>

\* The dispatch function put before the fragments it calls.
ComposedDispatchFirst(src, fun) == DispatchFunction(fun) \o src

\* No dispatch function when there is no light.
ComposedSkipEmpty(src, fun) == IF fun = <<>> THEN src ELSE src \o DispatchFunction(fun)

\* The string lights_shader_source returns from its locals.
Composed(src, fun) == src \o DispatchFunction(fun)

\* shader_source.push_str(&format!(calculate_lighting ..., &dir_fun)); shader_source
ReturnComposed ==
    /\ rpc = "finish"
    /\ rpc' = "idle"
    /\ mode' = "none"
    /\ last' = [NoCall EXCEPT !.op = "lights_shader_source",
                              !.result = Composed(shader_source, dir_fun),
                              !.effects = effects, !.calls = calls]
    /\ shader_source' = <<>>
    /\ dir_fun' = <<>>
    /\ idx' = 0
    /\ effects' = <<>>
    /\ calls' = <<>>
    /\ call' = NoCall
    /\ frame' = NoFrame
    /\ snapshot' = 0
    /\ ret' = <<>>
    /\ UNCHANGED <<depth, failed, prev>>
    /\ UNCHANGED <<LockVars, EnvVars>>

-----------------------------------------------------------------------------
(* lighting_model_to_id *)

LightingModels ==
    { <<"Phong">>, <<"Blinn">>,
      <<"Cook", "Blinn", "SmithSchlickGGX">>,
      <<"Cook", "Beckmann", "SmithSchlickGGX">>,
      <<"Cook", "TrowbridgeReitzGGX", "SmithSchlickGGX">> }

\* Two Cook-Torrance variants sharing an id.
lighting_model_to_id_shared(model) ==
    CASE model = <<"Phong">> -> 1
      [] model = <<"Blinn">> -> 2
      [] model = <<"Cook", "Blinn", "SmithSchlickGGX">> -> 3
      [] model = <<"Cook", "Beckmann", "SmithSchlickGGX">> -> 3
      [] model = <<"Cook", "TrowbridgeReitzGGX", "SmithSchlickGGX">> -> 5

lighting_model_to_id(model) ==
    CASE model = <<"Phong">> -> 1
      [] model = <<"Blinn">> -> 2
      [] model = <<"Cook", "Blinn", "SmithSchlickGGX">> -> 3
      [] model = <<"Cook", "Beckmann", "SmithSchlickGGX">> -> 4
      [] model = <<"Cook", "TrowbridgeReitzGGX", "SmithSchlickGGX">> -> 5

\* The caller maps a lighting model to its id.
CallLightingModelToId(m) ==
    /\ rpc = "idle"
    /\ last' = [NoCall EXCEPT !.op = "lighting_model_to_id", !.model = m,
                              !.result = << <<"u32", lighting_model_to_id(m)>> >>]
    /\ prev' = NoPrev
    /\ UNCHANGED <<rpc, mode, call, frame, depth, snapshot, ret, effects, calls, failed,
                   shader_source, dir_fun, idx>>
    /\ UNCHANGED <<LockVars, EnvVars>>

-----------------------------------------------------------------------------
(* The caller's own mutable borrow of a RefCell, on the render thread *)

BorrowMut(k) ==
    /\ rpc = "idle"
    /\ k \in Cells
    /\ refMut = <<>>
    /\ refMut' = k
    /\ UNCHANGED <<scene, value, poisoned, wpc, wlock, LockVars, rvars>>

DropRefMut ==
    /\ rpc = "idle"
    /\ refMut # <<>>
    /\ refMut' = <<>>
    /\ UNCHANGED <<scene, value, poisoned, wpc, wlock, LockVars, rvars>>

-----------------------------------------------------------------------------
(* The writer thread: lock.write().unwrap(), mutate, drop the guard *)

WriteLock(k) ==
    /\ wpc = "idle"
    /\ k \in Locks
    /\ Shared(k)
    /\ k \notin readGuards
    /\ k \notin poisoned
    /\ wpc' = "holding"
    /\ wlock' = k
    /\ UNCHANGED <<scene, value, refMut, poisoned, LockVars, rvars>>

Write(v) ==
    /\ wpc = "holding"
    /\ v # value[wlock[1]]
    /\ value' = [value EXCEPT ![wlock[1]] = v]
    /\ UNCHANGED <<scene, refMut, poisoned, wpc, wlock, LockVars, rvars>>

WriteUnlock ==
    /\ wpc = "holding"
    /\ wpc' = "idle"
    /\ wlock' = <<>>
    /\ UNCHANGED <<scene, value, refMut, poisoned, LockVars, rvars>>

\* The writer panics with the write guard held: the lock is poisoned.
WriterPanic ==
    /\ wpc = "holding"
    /\ wpc' = "dead"
    /\ wlock' = <<>>
    /\ poisoned' = poisoned \cup {wlock}
    /\ UNCHANGED <<scene, value, refMut, LockVars, rvars>>

-----------------------------------------------------------------------------

Next ==
    \/ \E o \in LightOps, p \in 1 .. MaxLights, i \in Slots, g \in Programs \cup {NoProg} :
          CallLight(o, p, i, g)
    \/ EnterPlain
    \/ EnterBorrow
    \/ EnterRead
    \/ InnerBegin
    \/ InnerEnd
    \/ Exit
    \/ ReturnLight
    \/ CallLightsShaderSource
    \/ LoopNext
    \/ LoopAppend
    \/ ReturnComposed
    \/ \E m \in LightingModels : CallLightingModelToId(m)
    \/ \E k \in (1 .. MaxLights) \X (1 .. 2) : BorrowMut(k)
    \/ DropRefMut
    \/ \E k \in (1 .. MaxLights) \X (1 .. 2) : WriteLock(k)
    \/ \E v \in Values : Write(v)
    \/ WriteUnlock
    \/ WriterPanic

Spec == Init /\ [][Next]_vars

-----------------------------------------------------------------------------
(* Reading a composed shader back *)

IsDigit(t) == t[1] = "digit"

RECURSIVE LeadingDigits(_)
LeadingDigits(text) ==
    IF text # <<>> /\ IsDigit(Head(text)) THEN 1 + LeadingDigits(Tail(text)) ELSE 0

RECURSIVE DecimalValue(_)
DecimalValue(digits) ==
    IF digits = <<>> THEN 0
    ELSE 10 * DecimalValue(SubSeq(digits, 1, Len(digits) - 1)) + digits[Len(digits)][2]

RECURSIVE AccumulatedIndices(_)
\* The indices the accumulation statements of a dispatch body name, in order;
\* <<-1>> where the body is not a run of accumulation statements.
AccumulatedIndices(body) ==
    IF body = <<>> THEN <<>>
    ELSE IF Head(body) # AccumulateHead THEN <<-1>>
    ELSE LET n == LeadingDigits(Tail(body))
             rest == SubSeq(body, n + 2, Len(body))
         IN  IF n = 0 \/ rest = <<>> \/ Head(rest) # AccumulateTail THEN <<-1>>
             ELSE <<DecimalValue(SubSeq(body, 2, n + 1))>> \o AccumulatedIndices(Tail(rest))

DispatchStarts(text) == {j \in 1 .. Len(text) : text[j] = DispatchHead[1]}

DispatchBody(text) ==
    LET j == CHOOSE j \in DispatchStarts(text) : TRUE
    IN  SubSeq(text, j + Len(DispatchHead), Len(text) - Len(DispatchTail))

HasDispatch(text) ==
    /\ Cardinality(DispatchStarts(text)) = 1
    /\ LET j == CHOOSE j \in DispatchStarts(text) : TRUE
       IN  /\ j + Len(DispatchHead) + Len(DispatchTail) - 1 <= Len(text)
           /\ SubSeq(text, j, j + Len(DispatchHead) - 1) = DispatchHead
           /\ SubSeq(text, Len(text) - Len(DispatchTail) + 1, Len(text)) = DispatchTail

RECURSIVE SumOf(_, _)
SumOf(indices, contrib) ==
    IF indices = <<>> THEN 0 ELSE contrib[Head(indices)] + SumOf(Tail(indices), contrib)

\* What the dispatch function of text returns when calculate_lighting{i} returns contrib[i].
DispatchValue(text, contrib) == 0 + SumOf(AccumulatedIndices(DispatchBody(text)), contrib)

Composing == last.op = "lights_shader_source"

Seen(log) == [j \in 1 .. Len(log) |-> log[j][4]]

RECURSIVE FragmentsOf(_, _)
\* The fragments of the lights at positions j .. Len(log), each for slot position - 1
\* and the light state its call saw.
FragmentsOf(log, j) ==
    IF j > Len(log) THEN <<>>
    ELSE LightShaderSource(j, log[j][4], j - 1) \o FragmentsOf(log, j + 1)

RECURSIVE StatementsFor(_, _)
StatementsFor(j, n) ==
    IF j >= n THEN <<>> ELSE Accumulate(j) \o StatementsFor(j + 1, n)

-----------------------------------------------------------------------------
(* Properties *)

\* C1: two calls of lights_shader_source on the same light list whose lights gave
\* the same shader_source outputs (same light state) return the same string.
C1_Deterministic ==
    (Composing /\ prev.op = "lights_shader_source" /\ Seen(last.calls) = Seen(prev.calls))
        => last.result = prev.result

C1_Witness ==
    /\ Composing /\ prev.op = "lights_shader_source"
    /\ Len(scene) = MaxLights
    /\ Seen(last.calls) = Seen(prev.calls)
    /\ \E j \in 1 .. Len(last.calls) : last.calls[j][4] = 1

\* C2: the dispatch function of a list of N lights holds exactly N accumulation
\* statements, naming calculate_lighting0 .. calculate_lighting{N-1} in that order.
C2_Accumulations ==
    Composing =>
        /\ HasDispatch(last.result)
        /\ AccumulatedIndices(DispatchBody(last.result)) = [j \in 1 .. Len(scene) |-> j - 1]

C2_Witness == Composing /\ Len(scene) = MaxLights

C4_EmptyList ==
    scene = <<>> =>
        /\ rpc \in {"idle", "loop", "finish"}
        /\ calls = <<>>
        /\ Composing =>
              /\ last.calls = <<>>
              /\ last.effects = <<>>
              /\ last.result = SharedFrag \o LightSharedFrag \o DispatchHead \o DispatchTail
              /\ HasDispatch(last.result)
              /\ AccumulatedIndices(DispatchBody(last.result)) = <<>>
              /\ \A contrib \in [0 .. MaxLights -> {1, 2}] :
                    DispatchValue(last.result, contrib) = 0

C4_Witness == scene = <<>> /\ Composing /\ rpc = "idle"

\* C5: lighting_model_to_id maps the five lighting models one-to-one onto 1..5:
\* Phong 1, Blinn 2, Cook(Blinn) 3, Cook(Beckmann) 4, Cook(TrowbridgeReitzGGX) 5.
C5_ModelIds ==
    /\ last.op = "lighting_model_to_id" =>
          /\ last.model = <<"Phong">> => last.result = << <<"u32", 1>> >>
          /\ last.model = <<"Blinn">> => last.result = << <<"u32", 2>> >>
          /\ last.model = <<"Cook", "Blinn", "SmithSchlickGGX">>
                => last.result = << <<"u32", 3>> >>
          /\ last.model = <<"Cook", "Beckmann", "SmithSchlickGGX">>
                => last.result = << <<"u32", 4>> >>
          /\ last.model = <<"Cook", "TrowbridgeReitzGGX", "SmithSchlickGGX">>
                => last.result = << <<"u32", 5>> >>
    /\ \A m1, m2 \in LightingModels :
          lighting_model_to_id(m1) = lighting_model_to_id(m2) => m1 = m2
    /\ {lighting_model_to_id(m) : m \in LightingModels} = 1 .. 5

C5_Witness ==
    /\ last.op = "lighting_model_to_id"
    /\ last.model = <<"Cook", "Beckmann", "SmithSchlickGGX">>
    /\ last.result = << <<"u32", 4>> >>

LockLayers(p) == {d \in Layers(p) : scene[p][d] = "ArcRwLock"}

\* A returned trait call did what the light's own operation does, once.
Faithful(c) ==
    /\ Len(c.calls) = 1
    /\ c.calls[1][1] = c.tgt
    /\ c.calls[1][2] = c.op
    /\ c.calls[1][3] = c.slot
    /\ c.result = LightResult(c.op, c.tgt, c.calls[1][4], c.slot)
    /\ c.effects = LightEffects(c.op, c.tgt, c.calls[1][4], c.slot, c.prog)

\* C7 as stated: every call on a wrapped light, through any stack of up to two
\* wrappers, invokes the light's own operation exactly once with the same program
\* and slot, and gives its result and its uniform bindings.
C7_Transparent ==
    /\ last.op \in LightOps => Faithful(last)
    /\ (mode = "direct" /\ rpc = "panicked") => Len(calls) = 1

\* C7 amended: a call that returns invoked the light's own operation exactly once
\* with the same program and slot and gives its result and bindings; a call through
\* a poisoned Arc<RwLock> or a mutably borrowed RefCell panics instead, with the
\* light's operation not invoked and nothing bound.
C7_TransparentUnlessAccessFails ==
    /\ last.op \in LightOps => Faithful(last)
    /\ (mode = "direct" /\ rpc = "panicked") =>
          /\ calls = <<>>
          /\ effects = <<>>
          /\ last = NoCall
          /\ \E d \in Layers(call.tgt) :
                \/ scene[call.tgt][d] = "ArcRwLock" /\ <<call.tgt, d>> \in poisoned
                \/ scene[call.tgt][d] = "RefCell" /\ refMut = <<call.tgt, d>>

C7_Witness ==
    /\ last.op = "use_uniforms"
    /\ scene[last.tgt] = <<"Arc", "ArcRwLock">>
    /\ last.slot = 1
    /\ last.prog = "program_b"
    /\ last.effects = << <<"program_b", 1, last.tgt, 1>> >>

\* C8: when a light's shader_source fails, lights_shader_source fails with it and
\* returns no string; a returned string holds the fragment of every light.
C8_FailurePropagates ==
    /\ (mode = "compose" /\ failed) => (rpc = "panicked" /\ last = NoCall)
    /\ Composing => Len(last.calls) = Len(scene)

C8_Witness ==
    /\ mode = "compose" /\ failed /\ rpc = "panicked"
    /\ idx = 1
    /\ Len(shader_source) > Len(SharedFrag \o LightSharedFrag)

\* C9: while a light operation runs through an Arc<RwLock>, the read guard is
\* held from before the operation starts until it has returned, no writer holds
\* the lock, and the light is as the operation found it.
C9_Snapshot ==
    rpc \in {"inner", "exit"} =>
        /\ \A d \in LockLayers(call.tgt) :
              d <= depth => (<<call.tgt, d>> \in readGuards /\ wlock # <<call.tgt, d>>)
        /\ (rpc = "inner" /\ LockLayers(call.tgt) # {}) => value[call.tgt] = snapshot

C9_Witness ==
    /\ rpc = "inner"
    /\ call.op = "use_uniforms"
    /\ LockLayers(call.tgt) # {}
    /\ value[call.tgt] = 1
    /\ wpc = "idle"

\* C10: between calls the render thread holds no read guard, a call never meets
\* a read guard of its own, and an idle writer can take the write lock of any
\* lock that is not poisoned.
C10_Released ==
    /\ rpc \in {"idle", "loop", "finish", "panicked"} => readGuards = {}
    /\ rpc = "enter" => <<call.tgt, depth + 1>> \notin readGuards
    /\ (rpc \in {"idle", "loop"} /\ wpc = "idle") =>
          \A k \in Locks : (Shared(k) /\ k \notin poisoned) => ENABLED WriteLock(k)

C10_Witness ==
    /\ rpc = "idle"
    /\ last.op = "shader_source"
    /\ scene[last.tgt] = <<"ArcRwLock">>
    /\ wpc = "holding"
    /\ wlock = <<last.tgt, 1>>

====
